---- MODULE Spec2Model ----
(***************************************************************************)
(* Model of the Napa Valley wine concierge service: the HTTP handlers of   *)
(* main.py, the agent of wine_agent.py and the tools of tools.py.          *)
(*                                                                         *)
(* Python str values are sequences of one-character strings, so that       *)
(* lower(), strip(), split() and the `in` substring test are computed and  *)
(* not assumed.  A formatted string (an f-string) is a tuple whose first   *)
(* element is the literal text and whose other elements are the values     *)
(* substituted into it.                                                    *)
(***************************************************************************)
EXTENDS Integers, Sequences, FiniteSets, TLC

VARIABLES
    wine_agent,   \* main.py:28-33  "agent" or "None"
    disk,         \* content of wine_business_info.txt, or "absent"
    startup,      \* what the file was when the process started
    reads,        \* what each read of the file made for this request found
    pc,           \* position of the request being handled
    req,          \* the request (or direct call) being handled
    user_input,   \* argument of classify_and_respond
    branch,       \* which branch of classify_and_respond was taken
    tool,         \* what the tool called by classify_and_respond did
    context,      \* the local `context` of classify_and_respond
    wx,           \* locals of WeatherTool.get_weather
    calls,        \* outbound calls made for this request, in order
    resp          \* the answer given to the caller

vars == <<wine_agent, disk, startup, reads, pc, req, user_input, branch, tool, context, wx, calls, resp>>

None == "None"

----------------------------------------------------------------------------
(* Python str operations *)

UpperChars == <<"A","B","C","D","E","F","G","H","I","J","K","L","M",
                "N","O","P","Q","R","S","T","U","V","W","X","Y","Z">>

LowerChars == <<"a","b","c","d","e","f","g","h","i","j","k","l","m",
                "n","o","p","q","r","s","t","u","v","w","x","y","z">>

Whitespace == {" ", "\t", "\n", "\r"}

\* the lower-case letter of each upper-case letter
lower_of ==
    [c \in {UpperChars[i] : i \in 1..26} |->
        LowerChars[CHOOSE i \in 1..26 : UpperChars[i] = c]]

lower_char(c) == IF c \in DOMAIN lower_of THEN lower_of[c] ELSE c

\* str.lower()
lower(s) == [i \in 1..Len(s) |-> lower_char(s[i])]

\* str.strip()
strip(s) ==
    IF \A i \in 1..Len(s) : s[i] \in Whitespace
    THEN <<>>
    ELSE LET first == CHOOSE i \in 1..Len(s) :
                          /\ s[i] \notin Whitespace
                          /\ \A j \in 1..(i-1) : s[j] \in Whitespace
             last  == CHOOSE i \in 1..Len(s) :
                          /\ s[i] \notin Whitespace
                          /\ \A j \in (i+1)..Len(s) : s[j] \in Whitespace
         IN SubSeq(s, first, last)

\* the Python test `sub in s` on two str values
contains(s, sub) ==
    \E i \in 0..(Len(s) - Len(sub)) : \A j \in 1..Len(sub) : s[i+j] = sub[j]

\* str.split('\n'): always at least one element
RECURSIVE split(_)
split(s) ==
    IF \A i \in 1..Len(s) : s[i] # "\n"
    THEN <<s>>
    ELSE LET k == CHOOSE i \in 1..Len(s) :
                      /\ s[i] = "\n"
                      /\ \A j \in 1..(i-1) : s[j] # "\n"
         IN <<SubSeq(s, 1, k-1)>> \o split(SubSeq(s, k+1, Len(s)))

\* '\n'.join(lines)
RECURSIVE join(_)
join(lines) ==
    IF Len(lines) = 0 THEN <<>>
    ELSE IF Len(lines) = 1 THEN lines[1]
    ELSE lines[1] \o <<"\n">> \o join(Tail(lines))

\* the slice xs[:n]
prefix(xs, n) == SubSeq(xs, 1, IF Len(xs) < n THEN Len(xs) ELSE n)

----------------------------------------------------------------------------
(* wine_agent.py: the keyword lists of classify_and_respond *)

wine_words ==
    << <<"w","i","n","e">>,
       <<"t","a","s","t","i","n","g">>,
       <<"v","i","n","e","y","a","r","d">>,
       <<"b","o","t","t","l","e">>,
       <<"p","r","i","c","e">>,
       <<"h","o","u","r","s">>,
       <<"r","e","s","e","r","v","a","t","i","o","n">>,
       <<"e","v","e","n","t">>,
       <<"c","a","b","e","r","n","e","t">>,
       <<"c","h","a","r","d","o","n","n","a","y">>,
       <<"m","e","r","l","o","t">>,
       <<"p","i","n","o","t">> >>

weather_words ==
    << <<"w","e","a","t","h","e","r">>,
       <<"t","e","m","p","e","r","a","t","u","r","e">>,
       <<"r","a","i","n">>,
       <<"s","u","n","n","y">>,
       <<"c","l","i","m","a","t","e">> >>

search_words ==
    << <<"n","e","w","s">>,
       <<"l","a","t","e","s","t">>,
       <<"r","e","c","e","n","t">>,
       <<"c","u","r","r","e","n","t">>,
       <<"s","e","a","r","c","h">>,
       <<"f","i","n","d">>,
       <<"t","r","e","n","d">> >>

\* any(word in user_input_lower for word in words)
any_word_in(words, text) == \E k \in 1..Len(words) : contains(text, words[k])

----------------------------------------------------------------------------
(* Python values and texts *)

Str(s)      == [t |-> "str", v |-> s]
NoneVal     == [t |-> "NoneType", v |-> <<>>]
Float(x)    == [t |-> "float", v |-> x]
Tuple(a, b) == [t |-> "tuple", v |-> <<a, b>>]

\* a fixed or formatted text: the literal it starts with and the value put in it
Text(kind, arg) == [kind |-> kind, arg |-> arg]

NoText == Text("", <<>>)

----------------------------------------------------------------------------
(* tools.py: WineKnowledgeBase *)

FILE_NOT_FOUND == <<"W","i","n","e"," ","b","u","s","i","n","e","s","s"," ","i","n","f","o","r","m","a","t","i","o","n"," ","f","i","l","e"," ","n","o","t"," ","f","o","u","n","d",".">>

\* "Error loading wine business information: " followed by str(e)
ERROR_LOADING(e) == <<"E","r","r","o","r"," ","l","o","a","d","i","n","g"," ","w","i","n","e"," ","b","u","s","i","n","e","s","s"," ","i","n","f","o","r","m","a","t","i","o","n",":"," ">> \o e

\* the file on disk: whether it is there, the exception that reading it
\* raises (none when empty), what it holds
File(exists, error, content) ==
    [exists |-> exists, error |-> error, content |-> content]

\* _load_knowledge, tools.py:99-107
_load_knowledge(file) ==
    IF ~ file.exists THEN FILE_NOT_FOUND
    ELSE IF Len(file.error) > 0 THEN ERROR_LOADING(file.error)
    ELSE file.content

\* the list comprehension of tools.py:124
RECURSIVE relevant_lines(_, _)
relevant_lines(lines, query_lower) ==
    IF Len(lines) = 0 THEN <<>>
    ELSE (IF contains(lower(lines[1]), query_lower) THEN <<lines[1]>> ELSE <<>>)
         \o relevant_lines(Tail(lines), query_lower)

MaxMatches == 10

\* search_knowledge returning every matching line, without the [:10]
search_knowledge_no_cut(knowledge_content, query) ==
    IF Len(knowledge_content) = 0
    THEN Text("Wine business information is not available.", <<>>)
    ELSE LET lines    == split(knowledge_content)
             relevant == relevant_lines(lines, lower(query))
         IN IF Len(relevant) > 0
            THEN Text("lines", join(relevant))
            ELSE Text("No specific information found for", query)

\* search_knowledge, tools.py:116-129
search_knowledge(knowledge_content, query) ==
    IF Len(knowledge_content) = 0
    THEN Text("Wine business information is not available.", <<>>)
    ELSE LET lines    == split(knowledge_content)
             relevant == relevant_lines(lines, lower(query))
         IN IF Len(relevant) > 0
            THEN Text("lines", join(prefix(relevant, MaxMatches)))
            ELSE Text("No specific information found for", query)

\* get_business_info, tools.py:109-114
get_business_info(knowledge_content) ==
    IF Len(knowledge_content) = 0
    THEN Text("Wine business information is not available.", <<>>)
    ELSE Text("lines", knowledge_content)

\* the tool get_wine_knowledge, wine_agent.py:30-36: a new WineKnowledgeBase
\* is built, and the file read, on every call
get_wine_knowledge(file, query) ==
    LET kb == _load_knowledge(file)
    IN IF Len(query) > 0 THEN search_knowledge(kb, query)
       ELSE get_business_info(kb)

----------------------------------------------------------------------------
(* wine_agent.py: classify_and_respond, the choice of the branch *)

\* the chain with the weather test put before the wine test
classify_weather_first(message) ==
    LET user_input_lower == lower(message)
    IN IF any_word_in(weather_words, user_input_lower) THEN "weather"
       ELSE IF any_word_in(wine_words, user_input_lower) THEN "wine"
       ELSE IF any_word_in(search_words, user_input_lower) THEN "search"
       ELSE "else"

\* the if / elif / elif / else chain of wine_agent.py:64-88
classify(message) ==
    LET user_input_lower == lower(message)
    IN IF any_word_in(wine_words, user_input_lower) THEN "wine"
       ELSE IF any_word_in(weather_words, user_input_lower) THEN "weather"
       ELSE IF any_word_in(search_words, user_input_lower) THEN "search"
       ELSE "else"

\* the label the branch puts before the tool's result (lines 73, 78, 83, 88)
label(b) ==
    CASE b = "wine"    -> "Wine Business Information: "
      [] b = "weather" -> "Weather Information: "
      [] b = "search"  -> "Web Search Results: "
      [] b = "else"    -> "Wine Business Information: "

\* wine_agent.py:92
TROUBLE == Text("I'm having trouble accessing some information right now.", <<>>)

\* wine_agent.py:111
APOLOGY(e) ==
    Text("I apologize, but I'm having trouble processing your request right now. Please try again. Error: ", e)

----------------------------------------------------------------------------
(* tools.py: WeatherTool *)

PRIMARY_LOCATION == <<"n","a","p","a",","," ","c","a">>

NAPA_LAT == "38.2975"
NAPA_LON == "-122.2869"

COORDS_NOT_FOUND(location) ==
    Text("Sorry, I couldn't find the coordinates for ", location)

WEATHER_INFO(location, data) == Text("Current weather in ", <<location, data>>)

WEATHER_ERROR_CODE(status_code) ==
    Text("Sorry, I'm having trouble getting the weather information right now. Error code: ", status_code)

WEATHER_EXCEPTION(e) ==
    Text("I apologize, but I'm having trouble accessing the weather information. Please try again later. Error: ", e)

\* the comparison made without lower() and strip()
resolve_exact(location) ==
    IF location.t # "str"
    THEN [how |-> "raise", lat |-> None, lon |-> None]
    ELSE IF location.v = <<"N","a","p","a",","," ","C","A">>
    THEN [how |-> "fixed", lat |-> NAPA_LAT, lon |-> NAPA_LON]
    ELSE IF location.t = "tuple" /\ Len(location.v) = 2
    THEN [how |-> "given", lat |-> location.v[1], lon |-> location.v[2]]
    ELSE [how |-> "geocode", lat |-> None, lon |-> None]

\* get_weather, tools.py:28-37: where the coordinates come from.  lower() is
\* called on the argument before anything else, and only a str has it
resolve(location) ==
    IF location.t # "str"
    THEN [how |-> "raise", lat |-> None, lon |-> None]
    ELSE IF strip(lower(location.v)) = PRIMARY_LOCATION
    THEN [how |-> "fixed", lat |-> NAPA_LAT, lon |-> NAPA_LON]
    ELSE IF location.t = "tuple" /\ Len(location.v) = 2
    THEN [how |-> "given", lat |-> location.v[1], lon |-> location.v[2]]
    ELSE [how |-> "geocode", lat |-> None, lon |-> None]

\* _get_coordinates falling back to a default pair instead of (None, None)
_get_coordinates_default(response) ==
    IF response.status_code = 200 /\ Len(response.results) > 0
    THEN response.results[1]
    ELSE <<"0.0", "0.0">>

\* _get_coordinates, tools.py:19-24, applied to the geocoding response
_get_coordinates(response) ==
    IF response.status_code = 200 /\ Len(response.results) > 0
    THEN response.results[1]
    ELSE <<None, None>>

\* get_weather, tools.py:48-60, applied to the current-conditions response
weather_result(location, response) ==
    IF response.status_code = 200
    THEN WEATHER_INFO(location, response.data)
    ELSE WEATHER_ERROR_CODE(response.status_code)

----------------------------------------------------------------------------
(* tools.py: WebSearchTool.search_web, lines 73-90 *)

search_result(outcome) ==
    IF outcome.raised THEN Text("Web search error: ", outcome.e)
    ELSE IF Len(outcome.results) = 0 THEN Text("No search results found.", <<>>)
    ELSE Text("Web Search Results:\n", outcome.results)

----------------------------------------------------------------------------
(* what a call returns or raises *)

Returned(value) == [ended |-> TRUE, raised |-> FALSE, value |-> value]
Raised(e)       == [ended |-> TRUE, raised |-> TRUE,  value |-> e]

\* the call has not ended yet
Pending == [ended |-> FALSE, raised |-> FALSE, value |-> NoText]

\* the tool call without the try: what the tool raises leaves the method
tool_context_no_try(b, r) ==
    IF r.raised THEN Raised(r.value)
    ELSE Returned(Text(label(b), r.value))

\* wine_agent.py:69-92: the try around the tool call
tool_context(b, r) ==
    IF r.raised THEN Returned(TROUBLE)
    ELSE Returned(Text(label(b), r.value))

\* llm.invoke without the try
llm_response_no_try(r) ==
    IF r.raised THEN Raised(r.value)
    ELSE Returned(r.value)

\* wine_agent.py:106-111: the try around llm.invoke
llm_response(r) ==
    IF r.raised THEN Returned(APOLOGY(r.value))
    ELSE Returned(r.value)

ChatBody(error, user_message, bot_response, status) ==
    [error |-> error, user_message |-> user_message,
     bot_response |-> bot_response, status |-> status]

\* main.py:62-78 and 90-106: what the handler answers once chat has ended
chat_response(message, r) ==
    IF r.raised
    THEN [status |-> 500,
          body |-> ChatBody("Sorry, I encountered an error processing your request.",
                            <<>>, NoText, "")]
    ELSE [status |-> 200, body |-> ChatBody("", message, r.value, "success")]

AGENT_NOT_AVAILABLE ==
    [status |-> 503,
     body |-> ChatBody("Wine concierge agent not available", <<>>, NoText, "")]

PROVIDE_MESSAGE ==
    [status |-> 400, body |-> ChatBody("Please provide a message", <<>>, NoText, "")]

\* the framework's answer when the required form field is not supplied
FIELD_REQUIRED ==
    [status |-> 422, body |-> ChatBody("Field required", <<>>, NoText, "")]

----------------------------------------------------------------------------
(* main.py: what each handler decides before the agent is called *)

NoResp == [status |-> 0, body |-> NoneVal]

Proceed == [go |-> TRUE, resp |-> NoResp]
Answer(r) == [go |-> FALSE, resp |-> r]

\* the handler testing `not message` without strip()
chat_endpoint_check_no_strip(agent, message, empty_is_missing) ==
    IF message.t = "NoneType" \/ (empty_is_missing /\ Len(message.v) = 0)
    THEN Answer(FIELD_REQUIRED)
    ELSE IF agent = None THEN Answer(AGENT_NOT_AVAILABLE)
    ELSE IF Len(message.v) = 0 THEN Answer(PROVIDE_MESSAGE)
    ELSE Proceed

\* the handler with the test of the message put before the test of the agent
chat_endpoint_check_empty_first(agent, message, empty_is_missing) ==
    IF message.t = "NoneType" \/ (empty_is_missing /\ Len(message.v) = 0)
    THEN Answer(FIELD_REQUIRED)
    ELSE IF Len(strip(message.v)) = 0 THEN Answer(PROVIDE_MESSAGE)
    ELSE IF agent = None THEN Answer(AGENT_NOT_AVAILABLE)
    ELSE Proceed

\* chat_endpoint, main.py:46-59.  `message: str = Form(...)` is a required
\* form field: a request without it is answered by the framework and the
\* body of the handler does not run.  Whether an empty form value counts as
\* not supplied depends on the framework: empty_is_missing is either.
chat_endpoint_check(agent, message, empty_is_missing) ==
    IF message.t = "NoneType" \/ (empty_is_missing /\ Len(message.v) = 0)
    THEN Answer(FIELD_REQUIRED)
    ELSE IF agent = None THEN Answer(AGENT_NOT_AVAILABLE)
    ELSE IF Len(strip(message.v)) = 0 THEN Answer(PROVIDE_MESSAGE)
    ELSE Proceed

\* chat_api, main.py:81-90
chat_api_check(agent) ==
    IF agent = None THEN Answer(AGENT_NOT_AVAILABLE) ELSE Proceed

\* weather_api, main.py:112-115
weather_api_check(lat, lon) ==
    IF lat.t = "NoneType" \/ lon.t = "NoneType"
    THEN Answer([status |-> 400, body |-> Text("Latitude and longitude required", <<>>)])
    ELSE Proceed

\* health_check, main.py:41-43
health(agent) ==
    [status |-> 200, body |-> [status |-> "healthy", agent_ready |-> agent # None]]

----------------------------------------------------------------------------
(* inputs *)

MaxFrags == 2

\* every concatenation of at most n of the fragments
RECURSIVE Concats(_, _)
Concats(frags, n) ==
    IF n = 0 THEN {<<>>}
    ELSE LET shorter == Concats(frags, n - 1)
         IN shorter \cup {s \o f : s \in shorter, f \in frags}

ChatFrags == {<<"W","i","n","e">>, <<"R","A","I","N">>, <<"n","e","w","s">>, <<"h","i">>, <<" ">>}

ChatMessages == Concats(ChatFrags, MaxFrags)

LocationFrags == {<<"N","a","p","a",","," ","C","A">>, <<"n","A","P","A",","," ","c","a">>, <<"P","a","r","i","s">>, <<" ">>}

Locations ==
    {Str(s) : s \in Concats(LocationFrags, MaxFrags)}
        \cup {Tuple("38.5", "-122.3"), Float("38.5")}

\* the values the keys lat and lon of a JSON body can have (None: no such key)
JsonValues == {NoneVal, Float("38.5"), Float("-122.3"), Str(<<"N","a","p","a",","," ","C","A">>), Str(<<"P","a","r","i","s">>)}

Files ==
    {File(FALSE, <<>>, <<>>),
     File(TRUE, <<"d","e","n","i","e","d">>, <<>>),
     File(TRUE, <<>>, <<>>),
     File(TRUE, <<>>, <<"W","i","n","e","\n","h","i">>)}

GeoResponses ==
    {[raised |-> TRUE,  status_code |-> 0,   results |-> <<>>],
     [raised |-> FALSE, status_code |-> 200, results |-> <<>>],
     [raised |-> FALSE, status_code |-> 200, results |-> << <<"48.85", "2.35">> >>],
     [raised |-> FALSE, status_code |-> 401, results |-> <<>>]}

WeatherResponses ==
    {[raised |-> TRUE,  status_code |-> 0,   data |-> "none"],
     [raised |-> FALSE, status_code |-> 200, data |-> "18C, Clear sky. Humidity: 40%"],
     [raised |-> FALSE, status_code |-> 401, data |-> "none"]}

SearchOutcomes ==
    {[raised |-> TRUE,  e |-> "RatelimitException", results |-> <<>>],
     [raised |-> FALSE, e |-> "", results |-> <<>>],
     [raised |-> FALSE, e |-> "", results |-> <<"1. title ... Source: url">>]}

LlmOutcomes ==
    {Returned(Text("content", <<>>)), Raised("APIError: status 500"),
     Raised("APIConnectionError")}

\* a call through the @tool wrapper either runs the function or raises
ToolCallRaises == BOOLEAN

----------------------------------------------------------------------------
(* the service *)

\* an outbound call: the collaborator, what it was sent, what came back
Call(api, arg, result) == [api |-> api, arg |-> arg, result |-> result]

\* agent.chat(message) returns to a handler of main.py, or to the script
\* that called it (test_agent.py:54)
caller_response(ep, message, r) ==
    IF ep = "chat" THEN [status |-> 0, body |-> r]
    ELSE chat_response(message, r)

NoWx == [location |-> NoneVal, exclude |-> NoneVal, lat |-> None, lon |-> None,
         caller |-> ""]

Request(ep, body, x, y) == [ep |-> ep, body |-> body, x |-> x, y |-> y]

\* main.py:28-33: the agent is built once, when the module is loaded
Init ==
    /\ wine_agent \in {"agent", None}
    /\ disk \in Files
    /\ startup = disk
    /\ reads = <<>>
    /\ pc = "idle"
    /\ req = Request("", "", NoneVal, NoneVal)
    /\ user_input = <<>>
    /\ branch = ""
    /\ tool = Pending
    /\ context = NoText
    /\ wx = NoWx
    /\ calls = <<>>
    /\ resp = NoResp

\* a handler that answers without calling the agent or a tool
Respond(r) ==
    /\ pc' = "done"
    /\ resp' = r
    /\ user_input' = <<>>
    /\ branch' = ""
    /\ tool' = Pending
    /\ context' = NoText
    /\ wx' = NoWx
    /\ calls' = <<>>

\* a handler that calls wine_agent.chat(message)
Chat(message) ==
    /\ pc' = "classify"
    /\ resp' = NoResp
    /\ user_input' = message
    /\ branch' = ""
    /\ tool' = Pending
    /\ context' = NoText
    /\ wx' = NoWx
    /\ calls' = <<>>

\* a caller of WeatherTool.get_weather(location, exclude)
Weather(caller, location, exclude) ==
    /\ pc' = "get_weather"
    /\ resp' = NoResp
    /\ wx' = [NoWx EXCEPT !.location = location, !.exclude = exclude,
                          !.caller = caller]

\* GET /: the page of the chat, main.py:35-38
home ==
    /\ pc = "idle"
    /\ req' = Request("GET /", "", NoneVal, NoneVal)
    /\ Respond([status |-> 200, body |-> Text("index.html", <<>>)])
    /\ UNCHANGED <<wine_agent, disk, startup, reads>>

\* GET /health
health_check ==
    /\ pc = "idle"
    /\ req' = Request("GET /health", "", NoneVal, NoneVal)
    /\ Respond(health(wine_agent))
    /\ UNCHANGED <<wine_agent, disk, startup, reads>>

\* POST /chat: body is "form" or "json", x the message it carries (NoneVal:
\* it carries none).  Only a form field reaches the parameter `message`.
chat_endpoint ==
    /\ pc = "idle"
    /\ \E body \in {"form", "json"}, x \in {NoneVal} \cup {Str(m) : m \in ChatMessages},
          empty_is_missing \in BOOLEAN :
          LET message == IF body = "form" THEN x ELSE NoneVal
              check   == chat_endpoint_check(wine_agent, message, empty_is_missing)
          IN /\ req' = Request("POST /chat", body, x, NoneVal)
             /\ IF check.go THEN Chat(message.v) ELSE Respond(check.resp)
    /\ UNCHANGED <<wine_agent, disk, startup, reads>>

\* GET /api/chat/{message}: a path segment is not empty
chat_api ==
    /\ pc = "idle"
    /\ \E m \in ChatMessages \ {<<>>} :
          LET check == chat_api_check(wine_agent)
          IN /\ req' = Request("GET /api/chat", "", Str(m), NoneVal)
             /\ IF check.go THEN Chat(m) ELSE Respond(check.resp)
    /\ UNCHANGED <<wine_agent, disk, startup, reads>>

\* POST /api/weather: get_weather(lat, lon) binds lat to `location` and lon
\* to `exclude`
weather_api ==
    /\ pc = "idle"
    /\ \E lat \in JsonValues, lon \in JsonValues :
          LET check == weather_api_check(lat, lon)
          IN /\ req' = Request("POST /api/weather", "json", lat, lon)
             /\ IF check.go
                THEN /\ Weather("weather_api", lat, lon)
                     /\ user_input' = <<>> /\ branch' = "" /\ tool' = Pending
                     /\ context' = NoText /\ calls' = <<>>
                ELSE Respond(check.resp)
    /\ UNCHANGED <<wine_agent, disk, startup, reads>>

\* WeatherTool().get_weather(location) called on its own, test_agent.py:79-80
call_get_weather ==
    /\ pc = "idle"
    /\ \E location \in Locations :
          /\ req' = Request("get_weather", "", location, NoneVal)
          /\ Weather("direct", location, Str(<<>>))
    /\ user_input' = <<>> /\ branch' = "" /\ tool' = Pending
    /\ context' = NoText /\ calls' = <<>>
    /\ UNCHANGED <<wine_agent, disk, startup, reads>>

\* classify_and_respond, wine_agent.py:64-88: the branch is chosen
route ==
    /\ pc = "classify"
    /\ branch' = classify(user_input)
    /\ pc' = "tool"
    /\ UNCHANGED <<wine_agent, disk, startup, reads, req, user_input, tool, context, wx, calls, resp>>

\* the end of the try of wine_agent.py:69-92, the tool having returned or
\* raised r; an exception that left classify_and_respond would end the
\* handler (main.py:70-78)
after_tool(r) ==
    LET c == tool_context(branch, r)
    IN /\ tool' = r
       /\ IF c.raised
          THEN /\ pc' = "done"
               /\ resp' = caller_response(req.ep, user_input, c)
               /\ context' = context
          ELSE /\ pc' = "llm"
               /\ resp' = resp
               /\ context' = c.value

\* the knowledge base built once, when the process starts, and asked since
wine_branch_loaded_at_startup ==
    /\ pc = "tool"
    /\ branch \in {"wine", "else"}
    /\ \E raises \in ToolCallRaises :
          after_tool(IF raises THEN Raised("ToolException")
                     ELSE Returned(get_wine_knowledge(startup, user_input)))
    /\ UNCHANGED <<wine_agent, disk, startup, reads, req, user_input, branch, wx, calls>>

\* branches 1 and 4: get_wine_knowledge(user_input), no outbound call; the
\* tool builds a WineKnowledgeBase, whose __init__ reads the file
wine_branch ==
    /\ pc = "tool"
    /\ branch \in {"wine", "else"}
    /\ \E raises \in ToolCallRaises :
          IF raises
          THEN after_tool(Raised("ToolException")) /\ reads' = reads
          ELSE /\ reads' = Append(reads, disk)
               /\ after_tool(Returned(get_wine_knowledge(disk, user_input)))
    /\ UNCHANGED <<wine_agent, disk, startup, req, user_input, branch, wx, calls>>

\* branch 2: get_weather_info("Napa, CA")
weather_branch ==
    /\ pc = "tool"
    /\ branch = "weather"
    /\ \E raises \in ToolCallRaises :
          IF raises
          THEN after_tool(Raised("ToolException")) /\ wx' = wx
          ELSE /\ Weather("classify", Str(<<"N","a","p","a",","," ","C","A">>), Str(<<>>))
               /\ UNCHANGED <<tool, context>>
    /\ UNCHANGED <<wine_agent, disk, startup, reads, req, user_input, branch, calls>>

\* branch 3: search_web_info(user_input); DDGS() or the wrapper may raise
\* before the search is made, search_web itself catches what ddg.text raises
search_branch ==
    /\ pc = "tool"
    /\ branch = "search"
    /\ \E raises \in ToolCallRaises :
          IF raises
          THEN after_tool(Raised("ToolException")) /\ calls' = calls
          ELSE \E outcome \in SearchOutcomes :
                  /\ calls' = Append(calls, Call("search", user_input, outcome))
                  /\ after_tool(Returned(search_result(outcome)))
    /\ UNCHANGED <<wine_agent, disk, startup, reads, req, user_input, branch, wx>>

\* get_weather returns result to whoever called it
weather_returns(result) ==
    IF wx.caller = "classify"
    THEN after_tool(Returned(result))
    ELSE /\ pc' = "done"
         /\ UNCHANGED <<tool, context>>
         /\ resp' = [status |-> IF wx.caller = "weather_api" THEN 200 ELSE 0,
                     body |-> result]

\* get_weather, tools.py:28-39, up to the first outbound call
get_weather ==
    /\ pc = "get_weather"
    /\ LET r == resolve(wx.location)
       IN CASE r.how = "raise" ->
                 /\ weather_returns(WEATHER_EXCEPTION("AttributeError"))
                 /\ wx' = wx
            [] r.how = "geocode" ->
                 /\ pc' = "geocode"
                 /\ UNCHANGED <<wx, tool, context, resp>>
            [] OTHER ->
                 /\ pc' = "current"
                 /\ wx' = [wx EXCEPT !.lat = r.lat, !.lon = r.lon]
                 /\ UNCHANGED <<tool, context, resp>>
    /\ UNCHANGED <<wine_agent, disk, startup, reads, req, user_input, branch, calls>>

\* the geocoding call of _get_coordinates and lines 37-39 of get_weather
geocode ==
    /\ pc = "geocode"
    /\ \E response \in GeoResponses :
          /\ calls' = Append(calls, Call("geocode", wx.location.v, response))
          /\ IF response.raised
             THEN weather_returns(WEATHER_EXCEPTION("RequestException")) /\ wx' = wx
             ELSE LET coords == _get_coordinates(response)
                  IN IF coords[1] = None \/ coords[2] = None
                     THEN weather_returns(COORDS_NOT_FOUND(wx.location)) /\ wx' = wx
                     ELSE /\ pc' = "current"
                          /\ wx' = [wx EXCEPT !.lat = coords[1], !.lon = coords[2]]
                          /\ UNCHANGED <<tool, context, resp>>
    /\ UNCHANGED <<wine_agent, disk, startup, reads, req, user_input, branch>>

\* the current-conditions call, tools.py:42-63
current_weather ==
    /\ pc = "current"
    /\ \E response \in WeatherResponses :
          /\ calls' = Append(calls, Call("weather", <<wx.lat, wx.lon>>, response))
          /\ weather_returns(IF response.raised
                             THEN WEATHER_EXCEPTION("RequestException")
                             ELSE weather_result(wx.location, response))
    /\ UNCHANGED <<wine_agent, disk, startup, reads, req, user_input, branch, wx>>

\* llm.invoke called again when it has raised
llm_invoke_retry ==
    /\ pc = "llm"
    /\ \E outcome \in LlmOutcomes :
          /\ calls' = Append(calls, Call("llm", <<user_input, context>>, outcome))
          /\ IF outcome.raised /\ Len(calls) < 2
             THEN pc' = "llm" /\ resp' = resp
             ELSE /\ pc' = "done"
                  /\ resp' = caller_response(req.ep, user_input, llm_response(outcome))
    /\ UNCHANGED <<wine_agent, disk, startup, reads, req, user_input, branch, tool, context, wx>>

\* llm.invoke(messages), wine_agent.py:95-111, and the handler's answer
llm_invoke ==
    /\ pc = "llm"
    /\ \E outcome \in LlmOutcomes :
          /\ calls' = Append(calls, Call("llm", <<user_input, context>>, outcome))
          /\ resp' = caller_response(req.ep, user_input, llm_response(outcome))
    /\ pc' = "done"
    /\ UNCHANGED <<wine_agent, disk, startup, reads, req, user_input, branch, tool, context, wx>>

\* the answer has been sent: the server waits for the next request, and
\* nothing of the request is kept (the handlers' locals are gone)
serve_next ==
    /\ pc = "done"
    /\ pc' = "idle"
    /\ req' = Request("", "", NoneVal, NoneVal)
    /\ user_input' = <<>>
    /\ branch' = ""
    /\ tool' = Pending
    /\ context' = NoText
    /\ wx' = NoWx
    /\ calls' = <<>>
    /\ resp' = NoResp
    /\ reads' = <<>>
    /\ UNCHANGED <<wine_agent, disk, startup>>

\* wine_business_info.txt is written, removed or made unreadable while the
\* process runs
write_file ==
    /\ \E file \in Files \ {disk} : disk' = file
    /\ UNCHANGED <<wine_agent, startup, reads, pc, req, user_input, branch, tool,
                   context, wx, calls, resp>>

Next ==
    \/ serve_next
    \/ write_file
    \/ home
    \/ health_check
    \/ chat_endpoint
    \/ chat_api
    \/ weather_api
    \/ call_get_weather
    \/ route
    \/ wine_branch
    \/ weather_branch
    \/ search_branch
    \/ get_weather
    \/ geocode
    \/ current_weather
    \/ llm_invoke

Spec == Init /\ [][Next]_vars

----------------------------------------------------------------------------
(* the routing part of agent.chat(question), the agent called on its own  *)
(* (test_agent.py:38-54): wine_agent.py:64-92, up to the context          *)

MaxRouteFrags == 2

\* every keyword of the three lists, in some mix of cases, and text that
\* holds no keyword unless joined ("tr" "end")
RouteFrags ==
    {<<"W","i","n","e">>,
     <<"T","A","S","T","I","N","G">>,
     <<"v","i","n","e","y","a","r","d">>,
     <<"B","o","t","t","l","e">>,
     <<"p","R","I","C","E">>,
     <<"h","o","u","r","s">>,
     <<"R","e","s","e","r","v","a","t","i","o","n">>,
     <<"E","V","E","N","T">>,
     <<"C","a","b","e","r","n","e","t">>,
     <<"c","h","a","r","d","o","n","n","a","y">>,
     <<"M","E","R","L","O","T">>,
     <<"P","i","n","o","t">>,
     <<"W","e","a","t","h","e","r">>,
     <<"T","E","M","P","E","R","A","T","U","R","E">>,
     <<"r","a","i","n">>,
     <<"S","u","n","n","y">>,
     <<"c","L","I","M","A","T","E">>,
     <<"N","e","w","s">>,
     <<"L","A","T","E","S","T">>,
     <<"r","e","c","e","n","t">>,
     <<"C","u","r","r","e","n","t">>,
     <<"S","E","A","R","C","H">>,
     <<"f","i","n","d">>,
     <<"T","r","e","n","d">>,
     <<" ">>,
     <<"h","e","l","l","o">>,
     <<"t","r">>,
     <<"e","n","d">>}

RouteMessages == Concats(RouteFrags, MaxRouteFrags) \ {<<>>}

InitRoute ==
    /\ wine_agent = "agent"
    /\ disk = File(TRUE, <<>>, <<"W","i","n","e","\n","h","i">>)
    /\ startup = disk
    /\ reads = <<>>
    /\ pc = "classify"
    /\ user_input \in RouteMessages
    /\ req = Request("chat", "", Str(user_input), NoneVal)
    /\ branch = ""
    /\ tool = Pending
    /\ context = NoText
    /\ wx = NoWx
    /\ calls = <<>>
    /\ resp = NoResp

NextRoute ==
    \/ route
    \/ wine_branch
    \/ weather_branch
    \/ search_branch
    \/ get_weather
    \/ current_weather

SpecRoute == InitRoute /\ [][NextRoute]_vars

----------------------------------------------------------------------------
(* WineKnowledgeBase(file).search_knowledge(query) called on its own *)

MaxLines == 11
MaxDocLen == 4

LongDocs == {join(ls) : ls \in UNION {[1..n -> {<<"A","b">>, <<"c">>}] : n \in 1..MaxLines}}

ShortDocs == UNION {[1..n -> {"A", "b", "c", "\n"}] : n \in 0..MaxDocLen}

Queries == UNION {[1..n -> {"a", "B"}] : n \in 0..2}

InitSearch ==
    /\ wine_agent = "agent"
    /\ \E content \in LongDocs \cup ShortDocs :
          disk = File(TRUE, <<>>, content)
    /\ startup = disk
    /\ reads = <<disk>>
    /\ pc = "search_knowledge"
    /\ \E query \in Queries : req = Request("search_knowledge", "", Str(query), NoneVal)
    /\ user_input = <<>>
    /\ branch = ""
    /\ tool = Pending
    /\ context = NoText
    /\ wx = NoWx
    /\ calls = <<>>
    /\ resp = NoResp

call_search_knowledge ==
    /\ pc = "search_knowledge"
    /\ pc' = "done"
    /\ resp' = [status |-> 0, body |-> search_knowledge(_load_knowledge(disk), req.x.v)]
    /\ UNCHANGED <<wine_agent, disk, startup, reads, req, user_input, branch, tool, context, wx, calls>>

NextSearch == call_search_knowledge

SpecSearch == InitSearch /\ [][NextSearch]_vars

----------------------------------------------------------------------------
(* properties *)

\* c is the letter k (lower case) in either case
upper_of ==
    [k \in {LowerChars[i] : i \in 1..26} |->
        UpperChars[CHOOSE i \in 1..26 : LowerChars[i] = k]]

same_letter(c, k) == c = k \/ (k \in DOMAIN upper_of /\ upper_of[k] = c)

\* the text holds the word at some place, the case of letters ignored
holds_word(text, word) ==
    \E at \in 0..(Len(text) - Len(word)) :
        \A i \in 1..Len(word) : same_letter(text[at + i], word[i])

holds_any(text, words) == \E k \in 1..Len(words) : holds_word(text, words[k])

\* the category the keyword rules give a message, first match first
category(text) ==
    IF holds_any(text, wine_words) THEN "WineKnowledge"
    ELSE IF holds_any(text, weather_words) THEN "Weather"
    ELSE IF holds_any(text, search_words) THEN "WebSearch"
    ELSE "WineKnowledge"

category_label(c) ==
    CASE c = "WineKnowledge" -> "Wine Business Information: "
      [] c = "Weather"       -> "Weather Information: "
      [] c = "WebSearch"     -> "Web Search Results: "

category_branches(c) ==
    CASE c = "WineKnowledge" -> {"wine", "else"}
      [] c = "Weather"       -> {"weather"}
      [] c = "WebSearch"     -> {"search"}

\* the outbound calls the tool of a category may make
category_apis(c) ==
    CASE c = "WineKnowledge" -> {}
      [] c = "Weather"       -> {"geocode", "weather"}
      [] c = "WebSearch"     -> {"search"}

routed == pc \in {"tool", "get_weather", "geocode", "current", "llm", "done"}

\* C1: every message is given exactly one context, that of the first of the
\* wine, weather and search keyword lists a word of which it holds, the case
\* of letters ignored, and that of wine knowledge when it holds none: the
\* branch taken, the label of the context and the tool called are those of
\* that category and of no other.
C1_FirstMatchWins ==
    LET c == category(user_input)
    IN /\ routed => branch \in category_branches(c)
       /\ routed => (branch = "else") = (~ holds_any(user_input, wine_words \o weather_words \o search_words))
       /\ pc \in {"llm", "done"} => context.kind \in {category_label(c), TROUBLE.kind}
       /\ \A i \in 1..Len(calls) : calls[i].api \in category_apis(c) \cup {"llm"}

\* a message with a wine keyword and a weather keyword, not all in lower
\* case, has been answered from the wine knowledge
C1_Witness ==
    /\ pc = "llm"
    /\ holds_any(user_input, wine_words)
    /\ holds_any(user_input, weather_words)
    /\ user_input # lower(user_input)
    /\ context.kind = "Wine Business Information: "

----------------------------------------------------------------------------
\* the form field `message` of a POST /chat request, NoneVal when the
\* request has none (a JSON body has no form field)
form_field(r) == IF r.body = "form" THEN r.x ELSE NoneVal

is_blank(text) == \A i \in 1..Len(text) : text[i] \in Whitespace

no_outbound_call == calls = <<>> /\ user_input = <<>> /\ ~ tool.ended

\* C2 as claimed: with no agent, /health reports agent_ready false and every
\* POST /chat and GET /api/chat/{message} request is answered 503 with no
\* call made; with an agent, /health reports agent_ready true.
C2_Original ==
    /\ req.ep = "GET /health" /\ pc = "done" =>
           resp.body.agent_ready = (wine_agent = "agent")
    /\ wine_agent = None /\ req.ep \in {"POST /chat", "GET /api/chat"} =>
           pc = "done" /\ resp.status = 503 /\ no_outbound_call

\* C2 (amended): with no agent, /health reports agent_ready false, and every
\* GET /api/chat/{message} request and every POST /chat request with a
\* non-empty form field message (also one of white space only) is answered
\* 503; a POST /chat request with no form field message is answered 422 by
\* the framework, one with an empty form field 422 or 503; none of them
\* leads to a tool or completion-API call.  With an agent, /health reports
\* agent_ready true.
C2_Degraded ==
    /\ req.ep = "GET /health" /\ pc = "done" =>
           resp.body.agent_ready = (wine_agent = "agent")
    /\ wine_agent = None /\ req.ep = "GET /api/chat" =>
           pc = "done" /\ resp.status = 503 /\ no_outbound_call
    /\ wine_agent = None /\ req.ep = "POST /chat" =>
           /\ pc = "done" /\ no_outbound_call
           /\ LET field == form_field(req)
              IN CASE field.t = "NoneType" -> resp.status = 422
                   [] field.t = "str" /\ Len(field.v) = 0 -> resp.status \in {422, 503}
                   [] OTHER -> resp.status = 503

\* with no agent, a POST /chat request whose form field is white space only
\* has been answered 503
C2_Witness ==
    /\ wine_agent = None
    /\ pc = "done"
    /\ req.ep = "POST /chat"
    /\ form_field(req).t = "str"
    /\ Len(form_field(req).v) > 0
    /\ is_blank(form_field(req).v)
    /\ resp.status = 503

\* the message of a POST /chat request is missing or blank
no_message(r) == r.x.t = "NoneType" \/ is_blank(r.x.v)

\* C3 as claimed: a POST /chat request, JSON or form, whose message is
\* missing or blank is answered 400 and chat is not called for it.
C3_Original ==
    req.ep = "POST /chat" /\ no_message(req) =>
        pc = "done" /\ resp.status = 400 /\ no_outbound_call

\* C3 (amended): chat is never called for a POST /chat request whose message
\* is missing or blank (no tool call, no completion-API call).  The request is
\* answered 400 when it carries the message as a non-empty form field and the
\* agent is available, 503 when the agent is not; 422, by the framework, when
\* it has no form field message (a JSON body has none); and one of these when
\* the form field is the empty string.
C3_BlankRejected ==
    req.ep = "POST /chat" /\ no_message(req) =>
        /\ pc = "done" /\ no_outbound_call
        /\ LET field == form_field(req)
               handled == IF wine_agent = None THEN 503 ELSE 400
           IN CASE field.t = "NoneType" -> resp.status = 422
                [] field.t = "str" /\ Len(field.v) = 0 -> resp.status \in {422, handled}
                [] OTHER -> resp.status = handled

\* with an agent, a form field of white space only has been answered 400
C3_Witness ==
    /\ wine_agent = "agent"
    /\ pc = "done"
    /\ req.ep = "POST /chat"
    /\ form_field(req).t = "str"
    /\ Len(form_field(req).v) > 0
    /\ is_blank(form_field(req).v)
    /\ resp.status = 400
    /\ no_outbound_call

----------------------------------------------------------------------------
chat_handlers == {"POST /chat", "GET /api/chat"}

last_call == calls[Len(calls)]

\* the completion API has been called and the call failed
llm_failed ==
    Len(calls) > 0 /\ last_call.api = "llm" /\ last_call.result.raised

\* C4: with an agent and a message, a failed completion-API call is not a
\* failed request: chat returns the apology with the exception's text in it
\* and the handler answers 200, status "success", with that apology as
\* bot_response; no chat request is answered 500.
C4_LlmFailureIsNotRequestFailure ==
    /\ req.ep \in chat_handlers => resp.status # 500
    /\ req.ep \in chat_handlers /\ pc = "done" /\ llm_failed =>
           /\ resp.status = 200
           /\ resp.body.status = "success"
           /\ resp.body.user_message = user_input
           /\ resp.body.bot_response.kind = "I apologize, but I'm having trouble processing your request right now. Please try again. Error: "
           /\ resp.body.bot_response.arg = last_call.result.value

\* a POST /chat request whose completion call answered with status 500 has
\* been answered 200 with the apology
C4_Witness ==
    /\ req.ep = "POST /chat"
    /\ pc = "done"
    /\ llm_failed
    /\ last_call.result.value = "APIError: status 500"
    /\ resp.status = 200
    /\ resp.body.bot_response.arg = "APIError: status 500"

\* C5: when the tool of the branch taken raises, in any branch, the context
\* is the fixed fallback text, and the request goes on: the completion API
\* is called with that context and the request is answered 200.
C5_ToolFailureFallsBack ==
    tool.raised =>
        /\ pc \in {"llm", "done"}
        /\ context.kind = "I'm having trouble accessing some information right now."
        /\ pc = "done" =>
               /\ Len(calls) > 0
               /\ last_call.api = "llm"
               /\ last_call.arg[2].kind = context.kind
               /\ req.ep \in chat_handlers => resp.status = 200

\* the search tool raised and the request was answered after the completion
\* call
C5_Witness ==
    /\ tool.raised
    /\ branch = "search"
    /\ req.ep = "POST /chat"
    /\ pc = "done"
    /\ last_call.api = "llm"
    /\ resp.status = 200

----------------------------------------------------------------------------
\* the collaborators called so far, in order
apis == [i \in 1..Len(calls) |-> calls[i].api]

\* the calls one tool can make
ToolCalls == {<<>>, <<"geocode">>, <<"weather">>, <<"geocode", "weather">>, <<"search">>}

is_prefix(s, t) == Len(s) <= Len(t) /\ SubSeq(t, 1, Len(s)) = s

\* chat has been called for the request
reached_chat ==
    /\ req.ep \in chat_handlers
    /\ \/ pc \in {"classify", "tool", "get_weather", "geocode", "current", "llm"}
       \/ pc = "done" /\ resp.status \notin {400, 422, 503}

\* C6: a chat request makes its outbound calls one after the other and each
\* at most once: those of at most one tool (geocode then current conditions,
\* or one search, or none), then exactly one call of the completion API, made
\* only once the tool has returned or raised; no call is made a second time.
C6_SequentialOnce ==
    reached_chat =>
        /\ \E t \in ToolCalls : is_prefix(apis, t \o <<"llm">>)
        /\ pc = "done" => \E t \in ToolCalls : apis = t \o <<"llm">>
        /\ pc # "done" => \A i \in 1..Len(calls) : calls[i].api # "llm"
        /\ (\E i \in 1..Len(calls) : calls[i].api = "llm") => tool.ended
        /\ pc = "llm" => tool.ended

\* a weather question answered: one current-conditions call that failed,
\* then one completion call that failed, and nothing else
C6_Witness ==
    /\ reached_chat
    /\ pc = "done"
    /\ apis = <<"weather", "llm">>
    /\ calls[1].result.status_code = 401
    /\ calls[2].result.raised

----------------------------------------------------------------------------
(* the knowledge search, stated on the positions of the line breaks *)

\* the places of the document before, between and after which its lines lie
breaks(doc) == {0} \cup {i \in 1..Len(doc) : doc[i] = "\n"} \cup {Len(doc) + 1}

\* the k-th of them, counted from 0
nth_break(doc, k) ==
    CHOOSE b \in breaks(doc) : Cardinality({c \in breaks(doc) : c < b}) = k

doc_lines(doc) ==
    [k \in 1..(Cardinality(breaks(doc)) - 1) |->
        SubSeq(doc, nth_break(doc, k - 1) + 1, nth_break(doc, k) - 1)]

\* the line holds the query, the case of letters ignored on both sides
line_matches(line, query) ==
    \E at \in 0..(Len(line) - Len(query)) :
        \A i \in 1..Len(query) : lower_char(line[at + i]) = lower_char(query[i])

matching_lines(doc, query) ==
    SelectSeq(doc_lines(doc), LAMBDA line : line_matches(line, query))

RECURSIVE one_per_line(_)
one_per_line(ls) ==
    IF Len(ls) = 0 THEN <<>>
    ELSE IF Len(ls) = 1 THEN ls[1]
    ELSE one_per_line(SubSeq(ls, 1, Len(ls) - 1)) \o <<"\n">> \o ls[Len(ls)]

\* the answer the claim gives for a document and a query
search_answer_is(answer, doc, query) ==
    LET found == matching_lines(doc, query)
    IN IF Len(found) > 0
       THEN /\ answer.kind = "lines"
            /\ answer.arg = one_per_line(SubSeq(found, 1, IF Len(found) > 10 THEN 10 ELSE Len(found)))
       ELSE /\ answer.kind = "No specific information found for"
            /\ answer.arg = query

searched == req.ep = "search_knowledge" /\ pc = "done"

\* C7 as claimed: on any document and any query the search returns the first
\* 10 lines that hold the query, case ignored, in the document's order and
\* joined by newlines, or the no-match message naming the query when no line
\* holds it.
C7_Original ==
    searched => search_answer_is(resp.body, disk.content, req.x.v)

\* C7 (amended): on any document that is not empty and any query the search
\* returns the first 10 lines that hold the query, case ignored, in the
\* document's order and joined by newlines, or the no-match message naming
\* the query when no line holds it; on the empty document it returns the
\* fixed "not available" message, whatever the query.
C7_Search ==
    searched =>
        IF Len(disk.content) > 0
        THEN search_answer_is(resp.body, disk.content, req.x.v)
        ELSE resp.body.kind = "Wine business information is not available."

\* more than 10 lines hold the query, which is not all in lower case, and
\* the answer is the first 10 of them
C7_Witness ==
    /\ searched
    /\ Len(matching_lines(disk.content, req.x.v)) > 10
    /\ req.x.v # lower(req.x.v)
    /\ resp.body.kind = "lines"
    /\ Len(doc_lines(resp.body.arg)) = 10

----------------------------------------------------------------------------
(* the weather tool *)

NapaCA == <<"N","a","p","a",","," ","C","A">>

\* the text is the label "Napa, CA" between white space, case ignored
is_primary(text) ==
    \E at \in 0..(Len(text) - Len(NapaCA)) :
        /\ \A i \in 1..Len(NapaCA) : lower_char(text[at + i]) = lower_char(NapaCA[i])
        /\ \A i \in 1..at : text[i] \in Whitespace
        /\ \A i \in (at + Len(NapaCA) + 1)..Len(text) : text[i] \in Whitespace

called(api) == {i \in 1..Len(calls) : calls[i].api = api}

get_weather_called == wx.caller # ""

get_weather_ended == get_weather_called /\ pc \in {"llm", "done"}

\* C8: get_weather with a location that is "Napa, CA" once trimmed, case
\* ignored, calls the current conditions with (38.2975, -122.2869) and never
\* calls the geocoding; so no chat request of the weather branch calls the
\* geocoding.
C8_PrimaryLocationIsFixed ==
    /\ get_weather_called /\ wx.location.t = "str" /\ is_primary(wx.location.v) =>
           /\ pc # "geocode"
           /\ called("geocode") = {}
           /\ \A i \in called("weather") : calls[i].arg = <<"38.2975", "-122.2869">>
           /\ get_weather_ended => Cardinality(called("weather")) = 1
    /\ branch = "weather" => pc # "geocode" /\ called("geocode") = {}

\* get_weather(" nAPA, ca") or the like has ended: the current conditions
\* were asked for the fixed pair and the geocoding was not called
C8_Witness ==
    /\ wx.caller = "direct"
    /\ pc = "done"
    /\ wx.location.t = "str"
    /\ wx.location.v # NapaCA
    /\ wx.location.v # strip(wx.location.v)
    /\ is_primary(wx.location.v)
    /\ apis = <<"weather">>
    /\ calls[1].arg = <<"38.2975", "-122.2869">>

\* the geocoding was called and answered 200 with no result
zero_results ==
    \E i \in called("geocode") :
        /\ ~ calls[i].result.raised
        /\ calls[i].result.status_code = 200
        /\ Len(calls[i].result.results) = 0

\* C9: when the geocoding answers with zero results, get_weather returns the
\* "couldn't find the coordinates" message for that location as a value, and
\* the current conditions are not called.
C9_NoCoordinatesNoWeatherCall ==
    zero_results =>
        /\ pc # "current"
        /\ called("weather") = {}
        /\ pc = "done" /\ wx.caller \in {"direct", "weather_api"} =>
               /\ resp.status \in {0, 200}
               /\ resp.body.kind = "Sorry, I couldn't find the coordinates for "
               /\ resp.body.arg = wx.location

C9_Witness ==
    /\ zero_results
    /\ wx.caller = "direct"
    /\ pc = "done"
    /\ apis = <<"geocode">>
    /\ resp.body.kind = "Sorry, I couldn't find the coordinates for "

\* C10 as claimed: get_weather given a pair (lat, lon), also by POST
\* /api/weather with lat and lon both present, calls the current conditions
\* with that pair and does not call the geocoding.
C10_Claim ==
    /\ get_weather_called /\ wx.location.t = "tuple" /\ pc = "done" =>
           /\ apis = <<"weather">>
           /\ calls[1].arg = wx.location.v
    /\ req.ep = "POST /api/weather" /\ req.x.t = "float" /\ req.y.t = "float"
         /\ pc = "done" =>
           /\ apis = <<"weather">>
           /\ calls[1].arg = <<req.x.v, req.y.v>>

----------------------------------------------------------------------------
(* the knowledge document *)

\* the document a knowledge base holds once it has read the file
document_of(file) ==
    IF ~ file.exists THEN FILE_NOT_FOUND
    ELSE IF Len(file.error) > 0 THEN ERROR_LOADING(file.error)
    ELSE file.content

\* the answer is that of a search of the document for the query
answered_from(answer, doc, query) ==
    IF Len(doc) = 0
    THEN answer.kind = "Wine business information is not available."
    ELSE search_answer_is(answer, doc, query)

\* the knowledge tool was called for this chat request and has returned
knowledge_answered ==
    /\ branch \in {"wine", "else"}
    /\ pc \in {"llm", "done"}
    /\ tool.ended
    /\ ~ tool.raised

\* C11 as claimed: the document is read once, when the process starts, and
\* never again: no request reads the file, and every knowledge query is
\* answered from what the file was at startup, whatever is written to it
\* afterwards.
C11_Original ==
    /\ reads = <<>>
    /\ knowledge_answered =>
           answered_from(tool.value, document_of(startup), user_input)

\* C11 (amended): the file is not read when the process starts; it is read
\* once for every knowledge query, by the knowledge base the knowledge tool
\* builds for that call, and at most once for a chat request (not at all
\* when no knowledge query is made).  The query is answered from what that
\* one read found and from nothing else, so what is written to the file while
\* the process runs shows in the answers of the queries made afterwards.
C11_ReadPerQuery ==
    /\ pc = "idle" => reads = <<>>
    /\ Len(reads) <= 1
    /\ Len(reads) = 1 <=> (req.ep \in chat_handlers /\ knowledge_answered)
    /\ knowledge_answered =>
           answered_from(tool.value, document_of(reads[1]), user_input)

\* the file was written after the process started, and a knowledge query
\* made since is answered from what was written: the document of startup
\* gives another answer
C11_Witness ==
    /\ knowledge_answered
    /\ pc = "done"
    /\ reads # <<>>
    /\ reads[1] # startup
    /\ startup.exists /\ reads[1].exists
    /\ answered_from(tool.value, document_of(reads[1]), user_input)
    /\ ~ answered_from(tool.value, document_of(startup), user_input)

====
